---------------------------- MODULE Spec2Model ----------------------------
(***************************************************************************)
(* Model of extract_newspapers.py: the paragraph-based header/field parser *)
(* extract_newspaper_info and the batch loop and report of main().         *)
(*                                                                         *)
(* A Python str is a sequence of one-character strings.  The CJK marker    *)
(* characters of the header are written with ASCII stand-ins:              *)
(*     "Y" = U+5E74 (year)   "M" = U+6708 (month)   "D" = U+65E5 (day)     *)
(*     "N" = U+7B2C (ordinal prefix)   "V" = U+7248 (edition)              *)
(* Every other letter is an ordinary (non-digit, non-space) character.     *)
(* An optional value is <<>> (Python None) or <<v>> (the value v), so that *)
(* None differs from the empty string << <<>> >>.                          *)
(***************************************************************************)
EXTENDS Integers, Sequences, FiniteSets, TLC

VARIABLES
    exists,     \* os.path.exists(args.input_path)
    input_path, \* args.input_path
    verbose,    \* args.verbose
    listing,    \* os.listdir(args.input_path)
    fs,         \* file name -> what extract_text does on that file
    pc,         \* position in main()
    pdf_files,  \* the filtered listing
    idx,        \* number of files the for loop has taken
    all_data,   \* records collected
    errors,     \* (filename, error text) pairs collected
    csv,        \* the table written by to_csv, None before
    out,        \* lines printed so far
    attempted   \* history: the paths extract_newspaper_info was called with

vars == <<exists, input_path, verbose, listing, fs, pc, pdf_files, idx,
          all_data, errors, csv, out, attempted>>

---------------------------------------------------------------------------
(* Python values *)

None == <<>>
Some(v) == <<v>>

NL == "\n"
SP == " "
SLASH == "/"
YEAR == "Y"
MONTH == "M"
DAY == "D"
ORD == "N"
EDITION == "V"

IsSpace(c) == c \in {" ", "\n", "\t"}
IsDigit(c) == c \in {"0", "1", "2", "3", "4", "5", "6", "7", "8", "9"}

\* outcome of a call: a returned value or a raised exception
Return(v) == [raised |-> None, value |-> v]
Raise(e) == [raised |-> Some(e), value |-> None]

SetMax(S) == CHOOSE x \in S : \A y \in S : y <= x
SetMin(S) == CHOOSE x \in S : \A y \in S : x <= y

RECURSIVE lstrip(_)
lstrip(s) == IF s # <<>> /\ IsSpace(Head(s)) THEN lstrip(Tail(s)) ELSE s

RECURSIVE rstrip(_)
rstrip(s) ==
    IF s # <<>> /\ IsSpace(s[Len(s)]) THEN rstrip(SubSeq(s, 1, Len(s) - 1)) ELSE s

\* str.strip()
strip(s) == rstrip(lstrip(s))

\* seq[k] with Python's 0-based index
GetItem(seq, k) ==
    IF k + 1 \in 1..Len(seq) THEN Return(seq[k + 1]) ELSE Raise([type |-> "IndexError", msg |-> "list index out of range"])

DigitVal(c) ==
    CASE c = "0" -> 0 [] c = "1" -> 1 [] c = "2" -> 2 [] c = "3" -> 3
      [] c = "4" -> 4 [] c = "5" -> 5 [] c = "6" -> 6 [] c = "7" -> 7
      [] c = "8" -> 8 [] c = "9" -> 9

RECURSIVE DecimalValue(_)
DecimalValue(s) ==
    IF s = <<>> THEN 0
    ELSE 10 * DecimalValue(SubSeq(s, 1, Len(s) - 1)) + DigitVal(s[Len(s)])

\* int(s) for a str s
PyInt(s) ==
    IF s # <<>> /\ \A k \in 1..Len(s) : IsDigit(s[k])
    THEN Return(DecimalValue(s))
    ELSE Raise([type |-> "ValueError", msg |-> "invalid literal for int()"])

\* '\n'.join(seq)
RECURSIVE JoinNL(_)
JoinNL(seq) ==
    IF seq = <<>> THEN <<>>
    ELSE IF Len(seq) = 1 THEN seq[1]
    ELSE seq[1] \o <<NL>> \o JoinNL(Tail(seq))

\* [x.strip() for x in pieces if x.strip()]
RECURSIVE StripNonEmpty(_)
StripNonEmpty(pieces) ==
    IF pieces = <<>> THEN <<>>
    ELSE LET p == strip(Head(pieces))
         IN (IF p # <<>> THEN <<p>> ELSE <<>>) \o StripNonEmpty(Tail(pieces))

---------------------------------------------------------------------------
(* Regular expressions of extract_newspaper_info *)

\* Last index of the match of \n\s*\n that starts at i, 0 when there is none.
\* \s* is greedy, so the match ends at the last newline of the whitespace run.
BlankMatchEnd(s, i) ==
    IF s[i] # NL THEN 0
    ELSE LET ends == {j \in (i + 1)..Len(s) :
                         /\ s[j] = NL
                         /\ \A k \in (i + 1)..(j - 1) : IsSpace(s[k])}
         IN IF ends = {} THEN 0 ELSE SetMax(ends)

RECURSIVE SplitBlankFrom(_, _, _)
SplitBlankFrom(s, from, i) ==
    IF i > Len(s) THEN <<SubSeq(s, from, Len(s))>>
    ELSE LET e == BlankMatchEnd(s, i)
         IN IF e = 0 THEN SplitBlankFrom(s, from, i + 1)
            ELSE <<SubSeq(s, from, i - 1)>> \o SplitBlankFrom(s, e + 1, e + 1)

\* re.split(r'\n\s*\n', text)
re_split_blank(text) == SplitBlankFrom(text, 1, 1)

RECURSIVE SplitCharFrom(_, _, _, _)
SplitCharFrom(s, c, from, i) ==
    IF i > Len(s) THEN <<SubSeq(s, from, Len(s))>>
    ELSE IF s[i] = c
         THEN <<SubSeq(s, from, i - 1)>> \o SplitCharFrom(s, c, i + 1, i + 1)
         ELSE SplitCharFrom(s, c, from, i + 1)

\* header.split('/')
split_slash(header) == SplitCharFrom(header, SLASH, 1, 1)

IsDelim(c) == c = SLASH \/ IsSpace(c)

\* Last index of the maximal run of [/\s] characters that starts at i.
RECURSIVE DelimRunEnd(_, _)
DelimRunEnd(s, i) ==
    IF i + 1 <= Len(s) /\ IsDelim(s[i + 1]) THEN DelimRunEnd(s, i + 1) ELSE i

RECURSIVE SplitDelimFrom(_, _, _)
SplitDelimFrom(s, from, i) ==
    IF i > Len(s) THEN <<SubSeq(s, from, Len(s))>>
    ELSE IF IsDelim(s[i])
         THEN LET e == DelimRunEnd(s, i)
              IN <<SubSeq(s, from, i - 1)>> \o SplitDelimFrom(s, e + 1, e + 1)
         ELSE SplitDelimFrom(s, from, i + 1)

\* re.split(r'[/\s]+', header)
re_split_delims(header) == SplitDelimFrom(header, 1, 1)

\* Last index of the maximal digit run that starts at i (i - 1 when empty).
RECURSIVE DigitRunEnd(_, _)
DigitRunEnd(s, i) ==
    IF i <= Len(s) /\ IsDigit(s[i]) THEN DigitRunEnd(s, i + 1) ELSE i - 1

HasAt(s, i, lit) ==
    /\ i + Len(lit) - 1 <= Len(s)
    /\ \A k \in 1..Len(lit) : s[i + k - 1] = lit[k]

\* The match of  pre(\d+)post  anchored at i: Some(group 1) or None.  post
\* starts with a non-digit, so only the maximal digit run can be followed by it.
MatchAt(s, i, pre, post) ==
    LET d == i + Len(pre)
        e == DigitRunEnd(s, d)
    IN IF HasAt(s, i, pre) /\ e >= d /\ HasAt(s, e + 1, post)
       THEN Some(SubSeq(s, d, e))
       ELSE None

\* re.search(pre(\d+)post, s): the leftmost match's group(1), or None
re_search(s, pre, post) ==
    LET hits == {i \in 1..Len(s) : MatchAt(s, i, pre, post) # None}
    IN IF hits = {} THEN None ELSE MatchAt(s, SetMin(hits), pre, post)

\* Mutant: the year pattern without the space, r'(\d+)Y'.
year_search_Unspaced(part) == re_search(part, <<>>, <<YEAR>>)

year_search(part) == re_search(part, <<>>, <<SP, YEAR>>)
month_search(part) == re_search(part, <<>>, <<SP, MONTH>>)
day_search(part) == re_search(part, <<>>, <<SP, DAY>>)
volume_search(part) == re_search(part, <<ORD, SP>>, <<SP, EDITION>>)

---------------------------------------------------------------------------
(* Paths *)

PDF_SUFFIX == <<".", "p", "d", "f">>

\* f.endswith('.pdf')
endswith_pdf(f) ==
    /\ Len(f) >= Len(PDF_SUFFIX)
    /\ SubSeq(f, Len(f) - Len(PDF_SUFFIX) + 1, Len(f)) = PDF_SUFFIX

\* os.path.join(a, b) (posixpath)
path_join(a, b) ==
    IF b # <<>> /\ Head(b) = SLASH THEN b
    ELSE IF a = <<>> \/ a[Len(a)] = SLASH THEN a \o b
    ELSE a \o <<SLASH>> \o b

\* os.path.basename(p): what follows the last slash
basename(p) ==
    LET slashes == {i \in 1..Len(p) : p[i] = SLASH}
    IN IF slashes = {} THEN p ELSE SubSeq(p, SetMax(slashes) + 1, Len(p))

\* pdfminer's extract_text(pdf_path): the text of the file, or an exception
extract_text(files, pdf_path) ==
    LET name == basename(pdf_path)
    IN IF name \in DOMAIN files THEN files[name] ELSE Raise([type |-> "FileNotFoundError", msg |-> "No such file or directory"])

---------------------------------------------------------------------------
(* extract_newspaper_info *)

\* paragraphs = [p.strip() for p in re.split(r'\n\s*\n', text) if p.strip()]
Paragraphs(text) == StripNonEmpty(re_split_blank(text))

\* Mutant: the header is always split at '/'.
HeaderParts_SlashOnly(header) == StripNonEmpty(split_slash(header))

\* header_parts: split at '/' when the header has one, else at [/\s]+
HeaderParts(header) ==
    IF \E i \in 1..Len(header) : header[i] = SLASH
    THEN StripNonEmpty(split_slash(header))
    ELSE StripNonEmpty(re_split_delims(header))

\* info[key] = int(match.group(1)) if match, for one pattern; info is an
\* outcome, and an exception already raised goes on unchanged
SetIntIfMatch(res, key, match) ==
    IF res.raised # None \/ match = None THEN res
    ELSE LET n == PyInt(match[1])
         IN IF n.raised # None THEN n
            ELSE Return([res.value EXCEPT ![key] = Some(n.value)])

\* the body of "for part in header_parts" for one part
ScanPart(res, part) ==
    LET r1 == SetIntIfMatch(res, "year", year_search(part))
        r2 == SetIntIfMatch(r1, "month", month_search(part))
        r3 == SetIntIfMatch(r2, "day", day_search(part))
        vm == volume_search(part)
    IN IF r3.raised # None \/ vm = None THEN r3
       ELSE Return([r3.value EXCEPT !.volume = Some(vm[1])])

RECURSIVE ScanParts(_, _)
ScanParts(res, parts) ==
    IF parts = <<>> THEN res ELSE ScanParts(ScanPart(res, Head(parts)), Tail(parts))

\* Mutant: only the first part is searched for the date and the volume.
HeaderStage_FirstPartOnly(info, header_parts) ==
    IF header_parts # <<>>
    THEN ScanParts(Return([info EXCEPT !.publisher = Some(header_parts[1])]),
                   <<header_parts[1]>>)
    ELSE Return(info)

\* "if header_parts:" block
HeaderStage(info, header_parts) ==
    IF header_parts # <<>>
    THEN LET first == GetItem(header_parts, 0)
         IN IF first.raised # None THEN first
            ELSE ScanParts(Return([info EXCEPT !.publisher = Some(first.value)]),
                           header_parts)
    ELSE Return(info)

\* Mutant: the title is read whenever there is a paragraph (> 0 for > 1).
TitleStage_OffByOne(res, paragraphs) ==
    IF res.raised # None THEN res
    ELSE IF Len(paragraphs) > 0
    THEN LET second == GetItem(paragraphs, 1)
         IN IF second.raised # None THEN second
            ELSE Return([res.value EXCEPT !.title = Some(strip(second.value))])
    ELSE res

\* "if len(paragraphs) > 1:" block
TitleStage(res, paragraphs) ==
    IF res.raised # None THEN res
    ELSE IF Len(paragraphs) > 1
    THEN LET second == GetItem(paragraphs, 1)
         IN IF second.raised # None THEN second
            ELSE Return([res.value EXCEPT !.title = Some(strip(second.value))])
    ELSE res

\* Mutant: the body is joined from the title paragraph on.
BodyStage_FromTitle(res, paragraphs) ==
    IF res.raised # None THEN res
    ELSE IF Len(paragraphs) > 2
    THEN Return([res.value EXCEPT
                    !.text = Some(JoinNL(SubSeq(paragraphs, 2, Len(paragraphs))))])
    ELSE res

\* "if len(paragraphs) > 2:" block
BodyStage(res, paragraphs) ==
    IF res.raised # None THEN res
    ELSE IF Len(paragraphs) > 2
    THEN Return([res.value EXCEPT
                    !.text = Some(JoinNL(SubSeq(paragraphs, 3, Len(paragraphs))))])
    ELSE res

\* Mutant: text starts as None like the optional fields.
InitialInfo_TextNone(pdf_path, text) ==
    [filename |-> Some(basename(pdf_path)), publisher |-> None, year |-> None,
     month |-> None, day |-> None, volume |-> None, title |-> None,
     text |-> None]

\* the initial info dict
InitialInfo(pdf_path, text) ==
    [filename |-> Some(basename(pdf_path)), publisher |-> None, year |-> None,
     month |-> None, day |-> None, volume |-> None, title |-> None,
     text |-> Some(text)]

\* everything after the conversion: the parsing of one text
ParseText(pdf_path, text) ==
    LET paragraphs == Paragraphs(text)
        info == InitialInfo(pdf_path, text)
    IN IF paragraphs # <<>>
       THEN LET first == GetItem(paragraphs, 0)
            IN IF first.raised # None THEN first
               ELSE BodyStage(
                        TitleStage(
                            HeaderStage(info, HeaderParts(strip(first.value))),
                            paragraphs),
                        paragraphs)
       ELSE Return(info)

\* extract_newspaper_info(pdf_path): the record, or the exception raised
extract_newspaper_info(files, pdf_path) ==
    LET conv == extract_text(files, pdf_path)
    IN IF conv.raised # None THEN conv ELSE ParseText(pdf_path, conv.value)

\* the debug lines extract_newspaper_info prints before it returns or raises
DebugLines(files, pdf_path) ==
    LET conv == extract_text(files, pdf_path)
    IN IF conv.raised # None THEN <<>>
       ELSE (IF Paragraphs(conv.value) # <<>>
             THEN <<[kind |-> "debug_header"], [kind |-> "debug_parts"]>>
             ELSE <<>>)
            \o (IF ParseText(pdf_path, conv.value).raised = None
                THEN <<[kind |-> "debug_info"]>> ELSE <<>>)

---------------------------------------------------------------------------
(* main() *)

\* str(e)
str_exc(e) == e.msg

\* pdf_files = [f for f in os.listdir(args.input_path) if f.endswith('.pdf')]
RECURSIVE FilterPdf(_)
FilterPdf(names) ==
    IF names = <<>> THEN <<>>
    ELSE (IF endswith_pdf(Head(names)) THEN <<Head(names)>> ELSE <<>>)
         \o FilterPdf(Tail(names))

column_order ==
    <<"filename", "title", "publisher", "year", "month", "day", "volume", "text">>

\* df = pd.DataFrame(all_data)[column_order]: one row per record
DataFrame(data) ==
    [i \in 1..Len(data) |-> [c \in 1..Len(column_order) |-> data[i][column_order[c]]]]

\* the values of a column that are not missing
ColumnValues(data, key) == {data[i][key][1] : i \in {j \in 1..Len(data) : data[j][key] # None}}

\* df[key].min() and df[key].max(); missing values are skipped, and a column
\* with no value gives a missing result
ColumnMin(data, key) ==
    IF ColumnValues(data, key) = {} THEN None ELSE Some(SetMin(ColumnValues(data, key)))
ColumnMax(data, key) ==
    IF ColumnValues(data, key) = {} THEN None ELSE Some(SetMax(ColumnValues(data, key)))

\* df['publisher'].nunique()
NUnique(data, key) == Cardinality(ColumnValues(data, key))

\* the "Date range:" line: f"{year.min()}-{month.min()} to {year.max()}-{month.max()}"
DateRangeFrom(data) == <<ColumnMin(data, "year"), ColumnMin(data, "month")>>
DateRangeTo(data) == <<ColumnMax(data, "year"), ColumnMax(data, "month")>>

\* the lines of the "if all_data:" block
SummaryLines(data, errs) ==
    <<[kind |-> "saved"],
      [kind |-> "summary", total |-> Len(data), succeeded |-> Len(data),
       failed |-> Len(errs), publishers |-> NUnique(data, "publisher"),
       date_from |-> DateRangeFrom(data), date_to |-> DateRangeTo(data)]>>

\* the lines of the "if errors:" block
ErrorLines(errs) ==
    <<[kind |-> "errors_header"]>>
    \o [i \in 1..Len(errs) |-> [kind |-> "error_line", file |-> errs[i][1], error |-> errs[i][2]]]

\* "if not os.path.exists(args.input_path)": print and return
PathMissing ==
    /\ pc = "start"
    /\ ~exists
    /\ out' = Append(out, [kind |-> "path_error"])
    /\ pc' = "done"
    /\ UNCHANGED <<exists, input_path, verbose, listing, fs, pdf_files, idx,
                   all_data, errors, csv, attempted>>

\* "if not pdf_files": print and return
NoPdfFiles ==
    /\ pc = "start"
    /\ exists
    /\ FilterPdf(listing) = <<>>
    /\ pdf_files' = FilterPdf(listing)
    /\ out' = Append(out, [kind |-> "no_pdf"])
    /\ pc' = "done"
    /\ UNCHANGED <<exists, input_path, verbose, listing, fs, idx, all_data,
                   errors, csv, attempted>>

\* the listing has PDF files: print their number and enter the loop
BeginBatch ==
    /\ pc = "start"
    /\ exists
    /\ FilterPdf(listing) # <<>>
    /\ pdf_files' = FilterPdf(listing)
    /\ out' = Append(out, [kind |-> "found", n |-> Len(FilterPdf(listing))])
    /\ all_data' = <<>>
    /\ errors' = <<>>
    /\ pc' = "loop"
    /\ UNCHANGED <<exists, input_path, verbose, listing, fs, idx, csv, attempted>>

VerboseLine(line) == IF verbose THEN <<line>> ELSE <<>>

\* one iteration of the for loop in which extract_newspaper_info returns
ProcessFile ==
    /\ pc = "loop"
    /\ idx < Len(pdf_files)
    /\ LET filename == pdf_files[idx + 1]
           pdf_path == path_join(input_path, filename)
           res == extract_newspaper_info(fs, pdf_path)
       IN /\ res.raised = None
          /\ all_data' = Append(all_data, res.value)
          /\ out' = out \o VerboseLine([kind |-> "processing", file |-> filename])
                        \o DebugLines(fs, pdf_path)
                        \o VerboseLine([kind |-> "processed", file |-> filename])
    /\ idx' = idx + 1
    /\ attempted' = Append(attempted, path_join(input_path, pdf_files[idx + 1]))
    /\ UNCHANGED <<exists, input_path, verbose, listing, fs, pc, pdf_files,
                   errors, csv>>

\* Mutant: the except branch passes without recording the failure.
ProcessFileFails_Swallowed ==
    /\ pc = "loop"
    /\ idx < Len(pdf_files)
    /\ extract_newspaper_info(fs, path_join(input_path, pdf_files[idx + 1])).raised # None
    /\ idx' = idx + 1
    /\ attempted' = Append(attempted, path_join(input_path, pdf_files[idx + 1]))
    /\ UNCHANGED <<exists, input_path, verbose, listing, fs, pc, pdf_files,
                   all_data, errors, csv, out>>

\* Mutant: no try/except, the exception ends main().
ProcessFileFails_Aborts ==
    /\ pc = "loop"
    /\ idx < Len(pdf_files)
    /\ extract_newspaper_info(fs, path_join(input_path, pdf_files[idx + 1])).raised # None
    /\ idx' = idx + 1
    /\ attempted' = Append(attempted, path_join(input_path, pdf_files[idx + 1]))
    /\ pc' = "done"
    /\ UNCHANGED <<exists, input_path, verbose, listing, fs, pdf_files,
                   all_data, errors, csv, out>>

\* one iteration in which extract_newspaper_info raises: the except branch
ProcessFileFails ==
    /\ pc = "loop"
    /\ idx < Len(pdf_files)
    /\ LET filename == pdf_files[idx + 1]
           pdf_path == path_join(input_path, filename)
           res == extract_newspaper_info(fs, pdf_path)
       IN /\ res.raised # None
          /\ errors' = Append(errors, <<filename, str_exc(res.raised[1])>>)
          /\ out' = out \o VerboseLine([kind |-> "processing", file |-> filename])
                        \o DebugLines(fs, pdf_path)
                        \o VerboseLine([kind |-> "verbose_error", file |-> filename,
                                        error |-> str_exc(res.raised[1])])
    /\ idx' = idx + 1
    /\ attempted' = Append(attempted, path_join(input_path, pdf_files[idx + 1]))
    /\ UNCHANGED <<exists, input_path, verbose, listing, fs, pc, pdf_files,
                   all_data, csv>>

\* after the loop: the CSV and the summary when all_data is not empty, then
\* the error list when errors is not empty
Report ==
    /\ pc = "loop"
    /\ idx = Len(pdf_files)
    /\ csv' = IF all_data # <<>> THEN Some(DataFrame(all_data)) ELSE csv
    /\ out' = out \o (IF all_data # <<>> THEN SummaryLines(all_data, errors) ELSE <<>>)
                  \o (IF errors # <<>> THEN ErrorLines(errors) ELSE <<>>)
    /\ pc' = "done"
    /\ UNCHANGED <<exists, input_path, verbose, listing, fs, pdf_files, idx,
                   all_data, errors, attempted>>

Next ==
    \/ PathMissing
    \/ NoPdfFiles
    \/ BeginBatch
    \/ ProcessFile
    \/ ProcessFileFails
    \/ Report

---------------------------------------------------------------------------
(* Inputs: directory listings, file contents, command lines *)

MaxFiles == 3
MaxTail == 3

A_PDF == <<"a", ".", "p", "d", "f">>
B_PDF == <<"b", ".", "p", "d", "f">>
C_PDF == <<"c", ".", "p", "d", "f">>
X_PDF == <<"x", "p", "d", "f">>
Names == {A_PDF, B_PDF, C_PDF, X_PDF}

InputPaths == {<<"d">>, <<"d", SLASH>>}

\* "<y> Y <m> M <d> D" and "N <v> V": the spaced header fields
SpacedDate(y, m, d) ==
    y \o <<SP, YEAR, SP>> \o m \o <<SP, MONTH, SP>> \o d \o <<SP, DAY>>
SpacedVolume(v) == <<ORD, SP>> \o v \o <<SP, EDITION>>

BlankLine == <<NL, NL>>

\* the texts of the batch runs
BatchTexts ==
    { <<"p", SLASH>> \o SpacedDate(<<"2", "0">>, <<"1", "2">>, <<"1">>) \o <<SLASH>>
          \o SpacedVolume(<<"3">>) \o BlankLine \o <<"t">> \o BlankLine \o <<"b">>,
      <<"q", SLASH>> \o SpacedDate(<<"2", "1">>, <<"1">>, <<"2">>) \o <<SLASH>>
          \o SpacedVolume(<<"1">>) \o BlankLine \o <<"t">>,
      <<>>,
      <<"p", SP, "2", "0", SP, YEAR>> }

ConversionError == [type |-> "PDFSyntaxError", msg |-> "No /Root object"]

BatchOutcomes == {Raise(ConversionError)} \cup {Return(t) : t \in BatchTexts}

Range(f) == {f[x] : x \in DOMAIN f}

\* os.listdir: distinct names in any order
Listings(maxLen) ==
    {l \in UNION {[1..n -> Names] : n \in 0..maxLen} :
        \A i, j \in DOMAIN l : l[i] = l[j] => i = j}

\* the files of a listing: a PDF converts or raises; anything else is no PDF
FileSystems(l, outcomes) ==
    {f \in [Range(l) -> outcomes \cup {Raise(ConversionError)}] :
        \A n \in Range(l) : ~endswith_pdf(n) => f[n] = Raise(ConversionError)}

InitLocals ==
    /\ pc = "start"
    /\ pdf_files = <<>>
    /\ idx = 0
    /\ all_data = <<>>
    /\ errors = <<>>
    /\ csv = None
    /\ out = <<>>
    /\ attempted = <<>>

Init ==
    /\ exists \in BOOLEAN
    /\ input_path \in InputPaths
    /\ verbose \in BOOLEAN
    /\ listing \in (IF exists THEN Listings(MaxFiles) ELSE {<<>>})
    /\ fs \in FileSystems(listing, BatchOutcomes)
    /\ InitLocals

Spec == Init /\ [][Next]_vars

(* Inputs of the parser: a header, then up to MaxTail further pieces *)

Pubs == {<<>>, <<"p">>, <<"p", SP, "1", SP, YEAR>>}
Seps == {<<SLASH>>, <<SP>>}
Dates ==
    { SpacedDate(<<"0", "7">>, <<"5">>, <<"1", "0">>),
      <<"0", "7", YEAR, "5", MONTH, "1", "0", DAY>>,
      <<"5", SP, MONTH>>,
      <<>> }
Vols == {SpacedVolume(<<"0", "3">>), <<ORD, "3", EDITION>>, <<>>}

Headers ==
    {<<>>} \cup {p \o s \o d \o s \o v : p \in Pubs, s \in Seps, d \in Dates, v \in Vols}

TailPieces == {BlankLine \o <<"t">>, <<NL>>, <<SP>>, <<"b">>}

RECURSIVE Tails(_)
Tails(n) ==
    IF n = 0 THEN {<<>>}
    ELSE Tails(n - 1) \cup {t \o c : t \in Tails(n - 1), c \in TailPieces}

ParserTexts == {h \o t : h \in Headers, t \in Tails(MaxTail)}

InitParse ==
    /\ input_path = <<"d">>
    /\ verbose = FALSE
    /\ \/ exists = FALSE /\ listing = <<>> /\ fs = <<>>
       \/ exists = TRUE /\ listing = <<X_PDF>> /\ fs \in FileSystems(listing, {})
       \/ /\ exists = TRUE
          /\ listing = <<A_PDF>>
          /\ fs \in FileSystems(listing, {Return(t) : t \in ParserTexts})
    /\ InitLocals

SpecParse == InitParse /\ [][Next]_vars

---------------------------------------------------------------------------
(* The batch loop and the report *)

\* the files of the listing whose name ends in ".pdf", counted
PdfCount == Cardinality({n \in Range(listing) : endswith_pdf(n)})

RecordsOf(f) == {i \in DOMAIN all_data : all_data[i].filename = Some(f)}
ErrorsOf(f) == {i \in DOMAIN errors : errors[i][1] = f}

\* C1: every attempted file has exactly one entry in exactly one of all_data
\* and errors; a file whose conversion raises has no record and one error
\* entry with the error's text; when the loop has ended the two lists
\* together have as many entries as .pdf files were found.
C1_OneEntryPerAttemptedFile ==
    /\ Len(all_data) + Len(errors) = idx
    /\ \A k \in 1..idx :
          LET f == pdf_files[k]
          IN /\ Cardinality(RecordsOf(f)) + Cardinality(ErrorsOf(f)) = 1
             /\ fs[f].raised # None =>
                   /\ RecordsOf(f) = {}
                   /\ \E i \in ErrorsOf(f) : errors[i] = <<f, fs[f].raised[1].msg>>
    /\ pc = "done" => Len(all_data) + Len(errors) = PdfCount

\* C1 witness: a finished run with a record and an error entry
C1_Witness == pc = "done" /\ all_data # <<>> /\ errors # <<>>

\* C2 (as claimed): once the loop of a run that found a PDF file has
\* finished, the summary with the total, succeeded and failed counts has
\* been printed, whatever succeeded or failed; and the lines of the error
\* list are printed only after the last file was attempted.
C2_SummaryAlwaysPrinted ==
    /\ (pc = "done" /\ pdf_files # <<>>) =>
          \E i \in DOMAIN out :
              /\ out[i].kind = "summary"
              /\ out[i].total = Len(pdf_files)
              /\ out[i].succeeded = Len(all_data)
              /\ out[i].failed = Len(errors)
    /\ (\E i \in DOMAIN out : out[i].kind = "error_line") => idx = Len(pdf_files)

\* the (year, month) pairs of the records that have both
DatedPairs == {<<all_data[i].year[1], all_data[i].month[1]>> :
                  i \in {j \in DOMAIN all_data :
                            all_data[j].year # None /\ all_data[j].month # None}}

PairLeq(a, b) == a[1] < b[1] \/ (a[1] = b[1] /\ a[2] <= b[2])

\* C7 (as claimed): the date range of the summary is the least and the
\* greatest (year, month) pair of the dated records, by year and then month.
C7_DateRangeIsMinMaxPair ==
    \A i \in DOMAIN out :
        (out[i].kind = "summary" /\ DatedPairs # {}) =>
            LET lo == CHOOSE a \in DatedPairs : \A b \in DatedPairs : PairLeq(a, b)
                hi == CHOOSE a \in DatedPairs : \A b \in DatedPairs : PairLeq(b, a)
            IN /\ out[i].date_from = <<Some(lo[1]), Some(lo[2])>>
               /\ out[i].date_to = <<Some(hi[1]), Some(hi[2])>>

\* the files of the listing that are PDF files, in listing order
FoundPdfs == SelectSeq(listing, endswith_pdf)

\* whether the conversion of a file succeeds
Converts(f) == fs[f].raised = None

\* what the loop collects from a list of files none of which fails
CollectedFrom(names) ==
    [i \in 1..Len(names) |->
        extract_newspaper_info(fs, path_join(input_path, names[i])).value]

C9_InOrder ==
    /\ attempted = [i \in 1..idx |-> path_join(input_path, FoundPdfs[i])]
    /\ all_data = CollectedFrom(SelectSeq(SubSeq(FoundPdfs, 1, idx), Converts))
    /\ pc = "done" => idx = Len(FoundPdfs)
    /\ pc # "done" => pc = "start" \/ (pc = "loop" /\ idx <= Len(pdf_files))

\* the steps main() still has to take
StepsLeft ==
    IF pc = "done" THEN 0
    ELSE IF pc = "loop" THEN Len(FoundPdfs) - idx + 1
    ELSE Len(FoundPdfs) + 2

\* C9: the files are attempted once each in listing order whatever fails,
\* all_data holds the records of the succeeding files in that order, as a
\* run on the succeeding files alone collects them, and the run ends after
\* the last file: until it is done main() is at its start or in the loop
\* with a file or the report still to come (the guards of the actions cover
\* both), and every step brings it nearer to the end.
C9_FailureNeverStopsBatch ==
    /\ []C9_InOrder
    /\ [][StepsLeft' < StepsLeft /\ StepsLeft' >= 0]_vars

\* C9 witness: a finished run in which a failing file came before a
\* succeeding one
C9_Witness ==
    /\ pc = "done"
    /\ \E i, j \in DOMAIN pdf_files :
          i < j /\ ~Converts(pdf_files[i]) /\ Converts(pdf_files[j])

---------------------------------------------------------------------------
(* The parser *)

\* the text a record was extracted from
TextOf(r) == fs[r.filename[1]].value

IsBlank(line) == \A k \in 1..Len(line) : IsSpace(line[k])

RECURSIVE GroupLines(_, _)
GroupLines(lines, cur) ==
    LET done == IF cur = <<>> THEN <<>> ELSE <<strip(JoinNL(cur))>>
    IN IF lines = <<>> THEN done
       ELSE IF IsBlank(Head(lines)) THEN done \o GroupLines(Tail(lines), <<>>)
       ELSE GroupLines(Tail(lines), Append(cur, Head(lines)))

\* the paragraphs of a text as the maximal runs of non-blank lines, trimmed
BlankLineParagraphs(t) == GroupLines(SplitCharFrom(t, NL, 1, 1), <<>>)

HasSlash(h) == \E i \in 1..Len(h) : h[i] = SLASH

\* h contains "<digit> <marker>"
ContainsSpaced(h, marker) ==
    \E i \in 1..Len(h) : IsDigit(h[i]) /\ HasAt(h, i + 1, <<SP, marker>>)

\* h contains "N <digits> V"
ContainsSpacedVolume(h) ==
    \E i, j \in 1..Len(h) :
        /\ i + 2 <= j
        /\ HasAt(h, i, <<ORD, SP>>)
        /\ \A k \in (i + 2)..j : IsDigit(h[k])
        /\ HasAt(h, j + 1, <<SP, EDITION>>)

IsDigits(s) == s # <<>> /\ \A k \in 1..Len(s) : IsDigit(s[k])

\* the <<publisher, Y, M, D, V>> for which h is exactly
\* "<publisher>/<Y> Y <M> M <D> D/N <V> V", publisher a name without a slash
\* or surrounding blanks; empty when h is not of that form
HeaderFields(h) ==
    LET sl == {k \in 1..Len(h) : h[k] = SLASH}
    IN IF Cardinality(sl) # 2 THEN {}
       ELSE LET i == SetMin(sl)
                j == SetMax(sl)
                cand == {<<SubSeq(h, 1, i - 1), SubSeq(h, i + 1, a), SubSeq(h, a + 4, b),
                           SubSeq(h, b + 4, j - 3), SubSeq(h, j + 3, Len(h) - 2)>> :
                            a \in (i + 1)..(j - 1), b \in (i + 1)..(j - 1)}
            IN {f \in cand :
                   /\ f[1] # <<>> /\ f[1] = strip(f[1])
                   /\ IsDigits(f[2]) /\ IsDigits(f[3]) /\ IsDigits(f[4]) /\ IsDigits(f[5])
                   /\ h = f[1] \o <<SLASH>> \o SpacedDate(f[2], f[3], f[4]) \o <<SLASH>>
                            \o SpacedVolume(f[5])}

\* group(1) of the pattern in the last part that has a match, None without
LastMatch(parts, search(_)) ==
    LET hits == {i \in DOMAIN parts : search(parts[i]) # None}
    IN IF hits = {} THEN None ELSE search(parts[SetMax(hits)])

AsInt(m) == IF m = None THEN None ELSE Some(DecimalValue(m[1]))

C4_SlashHeaderFields ==
    \A i \in DOMAIN all_data :
        LET r == all_data[i]
            P == BlankLineParagraphs(TextOf(r))
        IN P # <<>> =>
              \A f \in HeaderFields(P[1]) :
                  /\ r.publisher = Some(f[1])
                  /\ r.year = Some(DecimalValue(f[2]))
                  /\ r.month = Some(DecimalValue(f[3]))
                  /\ r.day = Some(DecimalValue(f[4]))
                  /\ r.volume = Some(f[5])

\* C4 witness: a record from such a header whose publisher part itself
\* holds a year pattern, and whose volume has a leading zero
C4_Witness ==
    /\ pc = "done"
    /\ \E i \in DOMAIN all_data :
          LET P == BlankLineParagraphs(TextOf(all_data[i]))
          IN /\ P # <<>>
             /\ \E f \in HeaderFields(P[1]) : ContainsSpaced(f[1], YEAR)
             /\ all_data[i].year = Some(7)
             /\ all_data[i].volume = Some(<<"0", "3">>)

\* C5: with P the trimmed non-empty paragraphs between blank lines, the
\* title is P[1] exactly when P has two or more paragraphs and None
\* otherwise; the text is the newline-join of P[2:] exactly when P has
\* three or more and the whole converted text otherwise.
C5_TitleAndBody ==
    \A i \in DOMAIN all_data :
        LET r == all_data[i]
            t == TextOf(r)
            P == BlankLineParagraphs(t)
        IN /\ r.title = IF Len(P) >= 2 THEN Some(P[2]) ELSE None
           /\ r.text = IF Len(P) >= 3 THEN Some(JoinNL(SubSeq(P, 3, Len(P))))
                       ELSE Some(t)

\* C5 witness: a record from a text of four paragraphs
C5_Witness ==
    /\ pc = "done"
    /\ \E i \in DOMAIN all_data : Len(BlankLineParagraphs(TextOf(all_data[i]))) >= 4

HEADER_SCAN_LINES == 10

\* the single-line header pattern "<publisher>/<year>Y<month>M<day>D/N<volume>V"
\* found in a line with the slash after the publisher at k
HeaderLineMatchAt(l, k) ==
    LET y2 == DigitRunEnd(l, k + 1)
        m2 == DigitRunEnd(l, y2 + 2)
        d2 == DigitRunEnd(l, m2 + 2)
        v2 == DigitRunEnd(l, d2 + 4)
    IN /\ k > 1 /\ l[k] = SLASH
       /\ y2 >= k + 1 /\ HasAt(l, y2 + 1, <<YEAR>>)
       /\ m2 >= y2 + 2 /\ m2 - (y2 + 2) < 2 /\ HasAt(l, m2 + 1, <<MONTH>>)
       /\ d2 >= m2 + 2 /\ d2 - (m2 + 2) < 2 /\ HasAt(l, d2 + 1, <<DAY, SLASH, ORD>>)
       /\ v2 >= d2 + 4 /\ HasAt(l, v2 + 1, <<EDITION>>)

\* some line among the first HEADER_SCAN_LINES lines has the pattern
HeaderLineFound(t) ==
    LET lines == SplitCharFrom(t, NL, 1, 1)
    IN \E n \in 1..Len(lines) :
          /\ n <= HEADER_SCAN_LINES
          /\ \E k \in 1..Len(lines[n]) : HeaderLineMatchAt(lines[n], k)

\* C8 (as claimed): when no line among the first 10 has the single-line
\* header pattern, publisher, year, month, day and volume are all None.
C8_NoHeaderLineNoFields ==
    \A i \in DOMAIN all_data :
        LET r == all_data[i]
        IN ~HeaderLineFound(TextOf(r)) =>
              /\ r.publisher = None /\ r.year = None /\ r.month = None
              /\ r.day = None /\ r.volume = None

\* C8 (amended): a field whose spaced sub-pattern ("<digits> Y", "<digits> M",
\* "<digits> D", "N <digits> V") occurs nowhere in the first paragraph is
\* None, whatever the rest of the text holds, and publisher is None exactly
\* when the first paragraph has no character other than '/' and whitespace
\* (as when the text has no non-blank paragraph at all).
C8_NoSubPatternNoField ==
    \A i \in DOMAIN all_data :
        LET r == all_data[i]
            P == BlankLineParagraphs(TextOf(r))
            h == IF P = <<>> THEN <<>> ELSE P[1]
        IN /\ ~ContainsSpaced(h, YEAR) => r.year = None
           /\ ~ContainsSpaced(h, MONTH) => r.month = None
           /\ ~ContainsSpaced(h, DAY) => r.day = None
           /\ ~ContainsSpacedVolume(h) => r.volume = None
           /\ r.publisher = None <=> \A k \in 1..Len(h) : IsDelim(h[k])

\* C8 witness: a record from a text whose first line has the single-line
\* pattern (no spaces), with a publisher and none of the other fields
C8_Witness ==
    /\ pc = "done"
    /\ \E i \in DOMAIN all_data :
          /\ HeaderLineFound(TextOf(all_data[i]))
          /\ all_data[i].publisher # None
          /\ all_data[i].year = None /\ all_data[i].month = None
          /\ all_data[i].day = None /\ all_data[i].volume = None

\* the first whitespace-separated token of a trimmed header
FirstToken(h) ==
    LET ws == {i \in 1..Len(h) : IsSpace(h[i])}
    IN IF ws = {} THEN h ELSE SubSeq(h, 1, SetMin(ws) - 1)

\* C10: when the first paragraph has no slash, year, month, day and volume
\* are all None, even when the paragraph holds the spaced sub-patterns, and
\* publisher is its first whitespace-separated token.
C10_NoSlashNoDate ==
    \A i \in DOMAIN all_data :
        LET r == all_data[i]
            P == BlankLineParagraphs(TextOf(r))
        IN (P # <<>> /\ ~HasSlash(P[1])) =>
              /\ r.year = None /\ r.month = None /\ r.day = None /\ r.volume = None
              /\ r.publisher = Some(FirstToken(P[1]))

\* C10 witness: a record from a slash-free header that holds every spaced
\* sub-pattern
C10_Witness ==
    /\ pc = "done"
    /\ \E i \in DOMAIN all_data :
          LET P == BlankLineParagraphs(TextOf(all_data[i]))
          IN /\ P # <<>> /\ ~HasSlash(P[1])
             /\ ContainsSpaced(P[1], YEAR) /\ ContainsSpaced(P[1], MONTH)
             /\ ContainsSpaced(P[1], DAY) /\ ContainsSpacedVolume(P[1])

=============================================================================
